---- MODULE Spec2Model ----
(***************************************************************************)
(* Model of the normalized ETA adjustment model                            *)
(* (src/src/models/normalized_eta_model.py), of the traffic providers      *)
(* (src/src/providers/*.py) and of the traffic manager                     *)
(* (src/src/services/traffic_manager.py).                                  *)
(*                                                                         *)
(* Numbers.  The ETA model computes with decimal fractions.  They are      *)
(* modelled exactly, as integers counting a fixed unit:                    *)
(*   - a raw impact counts 1/10^5 (base impacts are hundredths, the        *)
(*     context weights have at most two decimals, live-traffic dampening   *)
(*     is 0.3);                                                            *)
(*   - the duration scaling factor counts 1/1800 (for whole minutes the    *)
(*     interpolation has denominator 90 or 180 and the slopes have one     *)
(*     decimal);                                                           *)
(*   - a scaled impact counts 1/(10^5 * 1800);                             *)
(*   - 0.7^i counts 1/10^6, so inflations and multipliers count            *)
(*     1/UNIT with UNIT = 10^5 * 1800 * 10^6.                              *)
(* Such values exceed the 32-bit integers of TLC and are held as "Big"     *)
(* numbers: three limbs of base 10^6, the last of which carries the sign.  *)
(* The floating-point rounding of the Python code is not modelled.         *)
(***************************************************************************)
EXTENDS Integers, Sequences, FiniteSets, TLC

VARIABLES
    base_minutes,     \* argument base_minutes of calculate_normalized_eta
    conditions,       \* argument conditions: the dict as its (key, value) pairs in insertion order
    traffic_data,     \* argument traffic_data: None or the traffic mapping
    eta_result,       \* what the call returned (NoResult before the call)
    mult_call,        \* the last call of TrafficManager.get_traffic_multiplier: argument and result
    now,              \* datetime.now(), in seconds
    prov,             \* the provider objects: name -> [cache, last_request_time]
    providers,        \* the provider objects that were constructed (TrafficManager.providers)
    config,           \* TrafficManager.config
    active_provider,  \* TrafficManager.active_provider ("None" for None)
    last_refresh,     \* TrafficManager.last_refresh (Optional)
    req,              \* the TrafficManager.get_traffic_data request in progress or returned
    ret,              \* the direct call of a provider's get_traffic_data that has just returned
    threads           \* the concurrent calls of a provider's get_traffic_data, by thread

etaVars == <<base_minutes, conditions, traffic_data, eta_result, mult_call>>
sysVarsButThreads == <<now, prov, providers, config, active_provider, last_refresh, req, ret>>
sysVars == <<now, prov, providers, config, active_provider, last_refresh, req, ret, threads>>
vars == <<base_minutes, conditions, traffic_data, eta_result, mult_call,
          now, prov, providers, config, active_provider, last_refresh, req, ret, threads>>

-----------------------------------------------------------------------------
(* Exact arithmetic on Big numbers: <<l0, l1, l2>> is l0 + l1 * 10^6 +     *)
(* l2 * 10^12 with l0, l1 in 0 .. 10^6 - 1 and l2 any (signed) integer     *)

LimbBase == 10^6

BigNorm(x0, x1, x2) ==
    LET y1 == x1 + (x0 \div LimbBase)
    IN  <<x0 % LimbBase, y1 % LimbBase, x2 + (y1 \div LimbBase)>>

Big(n) == BigNorm(n, 0, 0)
BigAdd(a, b) == BigNorm(a[1] + b[1], a[2] + b[2], a[3] + b[3])
BigSub(a, b) == BigNorm(a[1] - b[1], a[2] - b[2], a[3] - b[3])
\* c is a small integer, |c| <= 2000
BigMul(a, c) == BigNorm(a[1] * c, a[2] * c, a[3] * c)
BigNeg(a) == BigMul(a, -1)

BigLess(a, b) ==
    \/ a[3] < b[3]
    \/ a[3] = b[3] /\ a[2] < b[2]
    \/ a[3] = b[3] /\ a[2] = b[2] /\ a[1] < b[1]
BigLeq(a, b) == ~BigLess(b, a)
BigMin(a, b) == IF BigLeq(a, b) THEN a ELSE b
BigMax(a, b) == IF BigLeq(a, b) THEN b ELSE a
BigAbs(a) == IF a[3] < 0 THEN BigNeg(a) ELSE a

\* h hundredths (0.35 is Dec(35)) counted in 1/UNIT: h * 18 * 10^5 * 10^6
Dec(h) == BigNorm(0, h * 18 * 10^5, 0)

-----------------------------------------------------------------------------
(* ETAConfig defaults; fractions are in hundredths, rates per hour in      *)
(* 1/120 minute per minute of travel (2.0 min/h = 4/120 min per minute)    *)

SHORT_TRIP_THRESHOLD == 30
MEDIUM_TRIP_THRESHOLD == 120
LONG_TRIP_THRESHOLD == 300
LIGHT_SEVERITY_CAP == 35
MODERATE_SEVERITY_CAP == 50
HEAVY_SEVERITY_CAP == 60
SHORT_TO_MEDIUM_SLOPE == 80
MEDIUM_TO_LONG_SLOPE == 50
WEATHER_ADDITIVE_PER_HOUR == 4
TRAFFIC_ADDITIVE_PER_HOUR == 6
ROAD_ADDITIVE_PER_HOUR == 3
MAX_MULTIPLICATIVE_FACTOR == 140
MIN_MULTIPLICATIVE_FACTOR == 80
DIMINISHING_RETURNS_FACTOR == 7
NIGHT_WEATHER_WEIGHT == 130
URBAN_ROAD_WEIGHT == 120
PEAK_TIME_WEIGHT == 115

-----------------------------------------------------------------------------
(* The condition catalogue: base impacts in hundredths *)

base_impacts ==
    [weather |-> [clear |-> 0, cloudy |-> 5, rain |-> 15, storm |-> 25, snow |-> 30],
     time_of_day |-> [night |-> -5, morning_peak |-> 20, midday |-> 0, evening_peak |-> 22],
     day_type |-> [weekday |-> 8, weekend |-> -3, holiday |-> 12],
     road_problem |-> [none |-> 0, accident |-> 35, construction |-> 20, closure |-> 45],
     police_activity |-> [low |-> 0, medium |-> 5, high |-> 10],
     driving_history |-> [calm |-> -5, normal |-> 0, aggressive |-> -8]]

\* dict.get(key, default) on a dict held as (key, value) pairs
RECURSIVE DictGet(_, _, _)
DictGet(d, key, default) ==
    IF d = <<>> THEN default
    ELSE IF Head(d)[1] = key THEN Head(d)[2]
    ELSE DictGet(Tail(d), key, default)

\* dict(conditions, key=value)
RECURSIVE DictSet(_, _, _)
DictSet(d, key, value) ==
    IF d = <<>> THEN <<>>
    ELSE <<IF Head(d)[1] = key THEN <<key, value>> ELSE Head(d)>>
             \o DictSet(Tail(d), key, value)

PeakTimes == {"morning_peak", "evening_peak"}

\* the result counts 1/10^5: hundredths (x 10^3) times the weights in hundredths
apply_context_weighting(condition_type, value, base_impact, all_conditions) ==
    LET tod == DictGet(all_conditions, "time_of_day", "None")
        w1 == base_impact * 1000
        w2 == IF condition_type = "weather" /\ tod = "night" /\ base_impact > 0
              THEN (w1 * NIGHT_WEATHER_WEIGHT) \div 100 ELSE w1
        w3 == IF condition_type = "road_problem"
                 /\ value \in {"construction", "accident"} /\ tod \in PeakTimes
              THEN (w2 * URBAN_ROAD_WEIGHT) \div 100 ELSE w2
        w4 == IF tod \in PeakTimes /\ condition_type # "time_of_day" /\ base_impact > 0
              THEN (w3 * PEAK_TIME_WEIGHT) \div 100 ELSE w3
    IN  w4

\* mutant: a value outside the enumeration counts as an impact of 0.10
RECURSIVE raw_impacts_from_unknown_counts(_, _)
raw_impacts_from_unknown_counts(items, all_conditions) ==
    IF items = <<>> THEN <<>>
    ELSE LET condition_type == Head(items)[1]
             value == Head(items)[2]
             rest == raw_impacts_from_unknown_counts(Tail(items), all_conditions)
         IN  IF condition_type \in DOMAIN base_impacts
                /\ value \in DOMAIN base_impacts[condition_type]
             THEN << <<condition_type,
                       apply_context_weighting(condition_type, value,
                           base_impacts[condition_type][value], all_conditions)>> >> \o rest
             ELSE << <<condition_type, 10000>> >> \o rest

\* the dict of impacts, as (key, impact) pairs in insertion order
RECURSIVE raw_impacts_from(_, _)
raw_impacts_from(items, all_conditions) ==
    IF items = <<>> THEN <<>>
    ELSE LET condition_type == Head(items)[1]
             value == Head(items)[2]
             rest == raw_impacts_from(Tail(items), all_conditions)
         IN  IF condition_type \in DOMAIN base_impacts
                /\ value \in DOMAIN base_impacts[condition_type]
             THEN << <<condition_type,
                       apply_context_weighting(condition_type, value,
                           base_impacts[condition_type][value], all_conditions)>> >> \o rest
             ELSE rest

calculate_raw_impacts(conds) == raw_impacts_from(conds, conds)

-----------------------------------------------------------------------------
(* The traffic mapping: jam_factor in hundredths, average_speed_kmh in     *)
(* whole km/h; given = FALSE stands for traffic_data = None                *)

NoTraffic ==
    [given |-> FALSE, live_traffic_enabled |-> FALSE, jam_factor |-> 0,
     incident_count |-> 0, average_speed_kmh |-> 60]

IntMin(a, b) == IF a <= b THEN a ELSE b
IntMax(a, b) == IF a >= b THEN a ELSE b
IntAbs(a) == IF a < 0 THEN -a ELSE a

\* mutant: the traffic mapping has no impact
calculate_traffic_impact_zero(td) == 0

\* the result counts 1/10^5
calculate_traffic_impact(td) ==
    LET base_impact == td.jam_factor * 800
        incident_impact == IntMin(40000, td.incident_count * 10000)
        speed_impact == IF td.average_speed_kmh < 60
                        THEN (60 - td.average_speed_kmh) * 1000 ELSE 0
        total_impact == base_impact + incident_impact + speed_impact
    IN  IntMax(0, IntMin(120000, total_impact))

traffic_available(td) == td.given /\ td.live_traffic_enabled

\* mutant: live_traffic is dampened like the manual impacts
RECURSIVE dampen_manual_all(_)
dampen_manual_all(impacts) ==
    IF impacts = <<>> THEN <<>>
    ELSE << <<Head(impacts)[1], (Head(impacts)[2] * 3) \div 10>> >>
             \o dampen_manual_all(Tail(impacts))

\* Step 1.5 of calculate_normalized_eta: the manual impacts are written back
\* at 0.3 of their value, live_traffic is appended and left as it is
RECURSIVE dampen_manual(_)
dampen_manual(impacts) ==
    IF impacts = <<>> THEN <<>>
    ELSE LET k == Head(impacts)[1]
             x == Head(impacts)[2]
         IN  << <<k, IF k # "live_traffic" THEN (x * 3) \div 10 ELSE x>> >>
                 \o dampen_manual(Tail(impacts))

integrate_live_traffic(raw, td) ==
    IF traffic_available(td)
    THEN dampen_manual(Append(raw, <<"live_traffic", calculate_traffic_impact(td)>>))
    ELSE raw

\* mutant: trips beyond the medium threshold are not dampened further
duration_scaling_factor_flat(b) ==
    IF b <= SHORT_TRIP_THRESHOLD THEN 1800
    ELSE IF b <= MEDIUM_TRIP_THRESHOLD
    THEN SHORT_TO_MEDIUM_SLOPE * 18
         + ((100 - SHORT_TO_MEDIUM_SLOPE) * 18 * (b - SHORT_TRIP_THRESHOLD))
               \div (MEDIUM_TRIP_THRESHOLD - SHORT_TRIP_THRESHOLD)
    ELSE 1800

\* the factor of _apply_duration_scaling, counted in 1/1800
duration_scaling_factor(b) ==
    IF b <= SHORT_TRIP_THRESHOLD THEN 1800
    ELSE IF b <= MEDIUM_TRIP_THRESHOLD
    THEN SHORT_TO_MEDIUM_SLOPE * 18
         + ((100 - SHORT_TO_MEDIUM_SLOPE) * 18 * (b - SHORT_TRIP_THRESHOLD))
               \div (MEDIUM_TRIP_THRESHOLD - SHORT_TRIP_THRESHOLD)
    ELSE LET span == LONG_TRIP_THRESHOLD - MEDIUM_TRIP_THRESHOLD
             over == IntMin(span, b - MEDIUM_TRIP_THRESHOLD)
         IN  MEDIUM_TO_LONG_SLOPE * 18
             + ((SHORT_TO_MEDIUM_SLOPE - MEDIUM_TO_LONG_SLOPE) * 18 * (span - over))
                   \div span

\* scaled impacts count 1/(10^5 * 1800)
RECURSIVE apply_duration_scaling(_, _)
apply_duration_scaling(b, raw) ==
    IF raw = <<>> THEN <<>>
    ELSE << <<Head(raw)[1], Head(raw)[2] * duration_scaling_factor(b)>> >>
             \o apply_duration_scaling(b, Tail(raw))

\* sorted(values, key=abs, reverse=True): stable, equal magnitudes keep their order
RECURSIVE InsertByAbs(_, _)
InsertByAbs(sorted, x) ==
    IF sorted = <<>> THEN <<x>>
    ELSE IF IntAbs(Head(sorted)) >= IntAbs(x)
    THEN <<Head(sorted)>> \o InsertByAbs(Tail(sorted), x)
    ELSE <<x>> \o sorted

RECURSIVE SortByAbs(_)
SortByAbs(impacts) ==
    IF impacts = <<>> THEN <<>>
    ELSE InsertByAbs(SortByAbs(SubSeq(impacts, 1, Len(impacts) - 1)),
                     impacts[Len(impacts)][2])

\* 0.7^k in thousandths, k in 0 .. 3
DiminishingPow(k) == DIMINISHING_RETURNS_FACTOR^k * 10^(3 - k)

\* mutant: the weight grows with the rank instead of decaying
Diminished_growing(impact, i) ==
    BigMul(BigMul(BigMul(Big(impact), 1000), 1000), i + 1)

\* impact * 0.7^i counted in 1/UNIT: 0.7^i = 0.7^min(i,3) * 0.7^(i - min(i,3)),
\* each factor in thousandths (i <= 6: six conditions and live_traffic)
Diminished(impact, i) ==
    BigMul(BigMul(Big(impact), DiminishingPow(IntMin(i, 3))),
           DiminishingPow(i - IntMin(i, 3)))

\* sorted_impacts[0] + sum of sorted_impacts[i] * 0.7^i
RECURSIVE DiminishingSum(_, _)
DiminishingSum(sorted, i) ==
    IF sorted = <<>> THEN Big(0)
    ELSE BigAdd(Diminished(Head(sorted), i), DiminishingSum(Tail(sorted), i + 1))

apply_diminishing_returns(scaled) ==
    IF scaled = <<>> THEN Big(0) ELSE DiminishingSum(SortByAbs(scaled), 0)

\* minutes counted in 1/120
calculate_additive_penalty(b, conds) ==
    LET weather == DictGet(conds, "weather", "clear")
        time_of_day == DictGet(conds, "time_of_day", "midday")
        road_problem == DictGet(conds, "road_problem", "none")
    IN  (IF weather \in {"rain", "storm", "snow"} THEN WEATHER_ADDITIVE_PER_HOUR * b ELSE 0)
        + (IF time_of_day \in PeakTimes THEN TRAFFIC_ADDITIVE_PER_HOUR * b ELSE 0)
        + (IF road_problem \in {"construction", "accident"} THEN ROAD_ADDITIVE_PER_HOUR * b ELSE 0)

\* combined_impact + additive_penalty / base_minutes, counted in 1/UNIT
\* (1/120 is 15 * 10^11 / UNIT; the penalty is a multiple of base_minutes)
total_inflation_of(b, combined_impact, additive_penalty) ==
    BigAdd(combined_impact,
           BigNorm(0, (additive_penalty \div b) * 15 * 10^5, 0))

\* mutant: the final bounds [MIN, MAX]_MULTIPLICATIVE_FACTOR are not applied
apply_severity_caps_unbounded(b, combined_impact, additive_penalty) ==
    LET total_inflation == total_inflation_of(b, combined_impact, additive_penalty)
        severity_cap ==
            IF BigLeq(BigAbs(total_inflation), Dec(20)) THEN Dec(LIGHT_SEVERITY_CAP)
            ELSE IF BigLeq(BigAbs(total_inflation), Dec(40)) THEN Dec(MODERATE_SEVERITY_CAP)
            ELSE Dec(HEAVY_SEVERITY_CAP)
        capped_inflation == BigMax(BigNeg(severity_cap), BigMin(severity_cap, total_inflation))
    IN  BigAdd(Dec(100), capped_inflation)

\* mutant: the heavy band is given the light cap
apply_severity_caps_swapped(b, combined_impact, additive_penalty) ==
    LET total_inflation == total_inflation_of(b, combined_impact, additive_penalty)
        severity_cap ==
            IF BigLeq(BigAbs(total_inflation), Dec(20)) THEN Dec(HEAVY_SEVERITY_CAP)
            ELSE IF BigLeq(BigAbs(total_inflation), Dec(40)) THEN Dec(MODERATE_SEVERITY_CAP)
            ELSE Dec(LIGHT_SEVERITY_CAP)
        capped_inflation == BigMax(BigNeg(severity_cap), BigMin(severity_cap, total_inflation))
        multiplier == BigAdd(Dec(100), capped_inflation)
    IN  BigMax(Dec(MIN_MULTIPLICATIVE_FACTOR),
               BigMin(Dec(MAX_MULTIPLICATIVE_FACTOR), multiplier))

\* mutant: the light band is capped at 15%
apply_severity_caps_light15(b, combined_impact, additive_penalty) ==
    LET total_inflation == total_inflation_of(b, combined_impact, additive_penalty)
        severity_cap ==
            IF BigLeq(BigAbs(total_inflation), Dec(20)) THEN Dec(15)
            ELSE IF BigLeq(BigAbs(total_inflation), Dec(40)) THEN Dec(MODERATE_SEVERITY_CAP)
            ELSE Dec(HEAVY_SEVERITY_CAP)
        capped_inflation == BigMax(BigNeg(severity_cap), BigMin(severity_cap, total_inflation))
        multiplier == BigAdd(Dec(100), capped_inflation)
    IN  BigMax(Dec(MIN_MULTIPLICATIVE_FACTOR),
               BigMin(Dec(MAX_MULTIPLICATIVE_FACTOR), multiplier))

apply_severity_caps(b, combined_impact, additive_penalty) ==
    LET total_inflation == total_inflation_of(b, combined_impact, additive_penalty)
        severity_cap ==
            IF BigLeq(BigAbs(total_inflation), Dec(20)) THEN Dec(LIGHT_SEVERITY_CAP)
            ELSE IF BigLeq(BigAbs(total_inflation), Dec(40)) THEN Dec(MODERATE_SEVERITY_CAP)
            ELSE Dec(HEAVY_SEVERITY_CAP)
        capped_inflation == BigMax(BigNeg(severity_cap), BigMin(severity_cap, total_inflation))
        multiplier == BigAdd(Dec(100), capped_inflation)
    IN  BigMax(Dec(MIN_MULTIPLICATIVE_FACTOR),
               BigMin(Dec(MAX_MULTIPLICATIVE_FACTOR), multiplier))

\* _was_cap_applied: as coded the first two branches are never true (a total
\* of at most 0.15 or 0.30 is not above LIGHT_ or MODERATE_SEVERITY_CAP)
was_cap_applied(combined_impact, additive_penalty, b) ==
    LET total_inflation == BigAbs(total_inflation_of(b, combined_impact, additive_penalty))
    IN  IF BigLeq(total_inflation, Dec(15))
        THEN ~BigLeq(total_inflation, Dec(LIGHT_SEVERITY_CAP))
        ELSE IF BigLeq(total_inflation, Dec(30))
        THEN ~BigLeq(total_inflation, Dec(MODERATE_SEVERITY_CAP))
        ELSE ~BigLeq(total_inflation, Dec(HEAVY_SEVERITY_CAP))

\* _generate_breakdown, "contributions": the factors listed, one for each
\* key of conditions that has an entry in raw_impacts
RECURSIVE contributions_of(_, _)
contributions_of(conds, raw_impacts) ==
    IF conds = <<>> THEN <<>>
    ELSE (IF Head(conds)[1] \in {raw_impacts[i][1] : i \in 1..Len(raw_impacts)}
          THEN <<Head(conds)[1]>> ELSE <<>>) \o contributions_of(Tail(conds), raw_impacts)

\* _calculate_overall_scaling_factor, counted in 1/1800 like duration_scaling_factor
calculate_overall_scaling_factor(b) ==
    IF b <= SHORT_TRIP_THRESHOLD THEN 1800
    ELSE IF b <= MEDIUM_TRIP_THRESHOLD THEN SHORT_TO_MEDIUM_SLOPE * 18
    ELSE MEDIUM_TO_LONG_SLOPE * 18

\* what a call leaves when an exception escapes it: no dict is returned
Raised(b, exception) ==
    [done |-> TRUE, error |-> exception, base_minutes |-> b,
     adjusted_minutes |-> Big(0), multiplier |-> Big(0),
     total_inflation_percent |-> Big(0), additive_penalty_minutes |-> 0,
     raw_impacts |-> <<>>, combined_impact |-> Big(0),
     traffic_integration |-> FALSE, cap_applied |-> FALSE,
     contributions |-> <<>>, scaling_factor |-> 0]

\* the returned dict; multiplier counts 1/UNIT, adjusted_minutes minutes/UNIT,
\* total_inflation_percent percent/UNIT, additive_penalty_minutes 1/120 minute.
\* The only statement that can raise for numeric base_minutes is the division
\* additive_penalty / base_minutes of _apply_severity_caps.
calculate_normalized_eta(b, conds, td) ==
    IF b = 0 THEN Raised(b, "ZeroDivisionError") ELSE
    LET raw_impacts == integrate_live_traffic(calculate_raw_impacts(conds), td)
        scaled_impacts == apply_duration_scaling(b, raw_impacts)
        combined_impact == apply_diminishing_returns(scaled_impacts)
        additive_penalty == calculate_additive_penalty(b, conds)
        final_multiplier == apply_severity_caps(b, combined_impact, additive_penalty)
    IN  [done |-> TRUE,
         error |-> "none",
         base_minutes |-> b,
         adjusted_minutes |-> BigMul(final_multiplier, b),
         multiplier |-> final_multiplier,
         total_inflation_percent |-> BigMul(BigSub(final_multiplier, Dec(100)), 100),
         additive_penalty_minutes |-> additive_penalty,
         raw_impacts |-> raw_impacts,
         combined_impact |-> combined_impact,
         traffic_integration |-> td.given,
         cap_applied |-> was_cap_applied(combined_impact, additive_penalty, b),
         contributions |-> contributions_of(conds, raw_impacts),
         scaling_factor |-> calculate_overall_scaling_factor(b)]

NoResult ==
    [done |-> FALSE, error |-> "none", base_minutes |-> 0, adjusted_minutes |-> Big(0),
     multiplier |-> Big(0), total_inflation_percent |-> Big(0),
     additive_penalty_minutes |-> 0, raw_impacts |-> <<>>,
     combined_impact |-> Big(0), traffic_integration |-> FALSE,
     cap_applied |-> FALSE, contributions |-> <<>>, scaling_factor |-> 0]

-----------------------------------------------------------------------------
(* Traffic providers (src/src/providers).  An Optional value is <<>> for   *)
(* None and <<x>> for x.  Times are whole seconds.  A list of coordinates  *)
(* is modelled by its length, the only thing the providers' control flow   *)
(* reads of it (empty or not, len // 5, len // 20, len / 100).             *)

ProviderNames == {"tomtom", "here", "mock"}

\* TrafficProvider.__init__ default, TrafficConfig.cache_duration
CACHE_DURATION == 300
\* _create_empty_traffic_data: timedelta(seconds=60)
FALLBACK_CACHE_SECONDS == 60

\* TrafficData.provider of the data a provider builds
DisplayName(p) ==
    IF p = "tomtom" THEN "TomTom" ELSE IF p = "here" THEN "HERE" ELSE "Mock"

TrafficData(route_id, flows, n_incidents, jam, speed, t, provider, cache_until) ==
    [route_id |-> route_id, flows |-> flows, incidents |-> n_incidents,
     overall_jam_factor |-> jam, average_speed_kmh |-> speed,
     incident_count |-> n_incidents, last_updated |-> t, provider |-> provider,
     cache_until |-> cache_until]

Routes == {"r1", "r2"}

\* a provider object: _cache and _last_request_time, both keyed by route id
\* (<<>> where the key is absent); TrafficProvider.__init__
NewProvider ==
    [cache |-> [r \in Routes |-> <<>>], last_request_time |-> [r \in Routes |-> <<>>]]

\* TrafficProvider._is_cache_valid
is_cache_valid(self, route_id, t) ==
    IF self.cache[route_id] = <<>> THEN FALSE
    ELSE t < self.cache[route_id][1].cache_until

\* TrafficProvider._get_cached_data
get_cached_data(self, route_id, t) ==
    IF is_cache_valid(self, route_id, t) THEN self.cache[route_id] ELSE <<>>

\* TrafficProvider._update_cache: the entry is the data with cache_until rewritten
update_cache(self, route_id, data, t) ==
    [cache |-> [self.cache EXCEPT
                    ![route_id] = <<[data EXCEPT !.cache_until = t + CACHE_DURATION]>>],
     last_request_time |-> [self.last_request_time EXCEPT ![route_id] = <<t>>]]

\* the TrafficData object _update_cache has rewritten is the one returned
Cached(data, t) == [data EXCEPT !.cache_until = t + CACHE_DURATION]

\* TrafficProvider.clear_cache
clear_cache(self) == NewProvider

\* _create_empty_traffic_data of each provider
create_empty_traffic_data(p, route_id, t) ==
    TrafficData(route_id, <<>>, 0, 0, 60, t, DisplayName(p) \o " (fallback)",
                t + FALLBACK_CACHE_SECONDS)

RECURSIVE SumSeq(_)
SumSeq(xs) == IF xs = <<>> THEN 0 ELSE Head(xs) + SumSeq(Tail(xs))

\* sum(flow.confidence ...), sum(flow.jam_factor * flow.confidence ...),
\* sum(flow.speed_kmh * flow.confidence ...)
TotalConfidence(flows) == SumSeq([i \in 1..Len(flows) |-> flows[i].confidence])
TotalJam(flows) == SumSeq([i \in 1..Len(flows) |-> flows[i].jam_factor * flows[i].confidence])
TotalSpeed(flows) == SumSeq([i \in 1..Len(flows) |-> flows[i].speed_kmh * flows[i].confidence])

\* _calculate_overall_jam_factor (hundredths; the payloads explored make the
\* division exact)
calculate_overall_jam_factor(flows) ==
    IF flows = <<>> THEN 0
    ELSE IF TotalConfidence(flows) > 0
    THEN TotalJam(flows) \div TotalConfidence(flows)
    ELSE 0

\* _calculate_average_speed raises TypeError on a speed that is no number
average_speed_raises(flows) == \E i \in 1..Len(flows) : ~flows[i].speed_is_number

calculate_average_speed(flows) ==
    IF flows = <<>> THEN 60
    ELSE IF TotalConfidence(flows) > 0
    THEN TotalSpeed(flows) \div TotalConfidence(flows)
    ELSE 60

\* What the upstream API answers to one request: status "ok" with the parsed
\* JSON (segments: the flow segments; incidents: the number of incidents), or
\* a failure of requests.get / raise_for_status / response.json
UpstreamFailures == {"network_error", "timeout", "http_error", "bad_json"}

\* a flow segment of the payload; speed_is_number = FALSE is a null currentSpeed
Segment(jam, speed, confidence, numeric) ==
    [jam_factor |-> jam, speed_kmh |-> speed, confidence |-> confidence,
     speed_is_number |-> numeric]

\* _get_flow_data: any exception (min() of no coordinates, the request, the
\* parsing; for HERE also float() of a speed that is no number) gives []
get_flow_data(p, n_coords, response) ==
    IF n_coords = 0 \/ response.status # "ok" THEN <<>>
    ELSE IF p = "here" /\ average_speed_raises(response.segments) THEN <<>>
    ELSE response.segments

\* _get_incident_data: any exception gives []; the model keeps the length
get_incident_data(p, n_coords, response) ==
    IF n_coords = 0 \/ response.status # "ok" THEN 0 ELSE response.incidents

\* MockTrafficProvider._generate_mock_flows: max(1, min(len // 5, 10)) segments
\* with random jam factor; rnd.jam stands for the draws (one value for all)
RECURSIVE MockSegments(_, _)
MockSegments(n, rnd) ==
    IF n = 0 THEN <<>>
    ELSE <<Segment(rnd.jam, IntMax(10, 100 - (rnd.jam * 70) \div 100), 80, TRUE)>>
             \o MockSegments(n - 1, rnd)

generate_mock_flows(n_coords, rnd) ==
    MockSegments(IntMax(1, IntMin(n_coords \div 5, 10)), rnd)

\* MockTrafficProvider._generate_mock_incidents: rnd.roll is random.random()
\* in hundredths, rnd.pick the draw of random.randint; randint(1, 0) raises
mock_incidents_raises(n_coords, rnd) ==
    /\ rnd.roll < IntMin(30, n_coords)
    /\ IntMin(3, n_coords \div 20) < 1

generate_mock_incidents(n_coords, rnd) ==
    IF rnd.roll < IntMin(30, n_coords)
    THEN IntMin(rnd.pick, IntMin(3, n_coords \div 20))
    ELSE 0

\* the body of the try block of get_traffic_data; raised = an exception left it
fetch_traffic_data(p, route_id, n_coords, t, up) ==
    LET flows == IF p = "mock" THEN generate_mock_flows(n_coords, up.rnd)
                 ELSE get_flow_data(p, n_coords, up.flow)
        raised == IF p = "mock" THEN mock_incidents_raises(n_coords, up.rnd)
                  ELSE average_speed_raises(flows)
        n_incidents == IF p = "mock" THEN generate_mock_incidents(n_coords, up.rnd)
                       ELSE get_incident_data(p, n_coords, up.incident)
    IN  [raised |-> raised,
         data |-> TrafficData(route_id, flows, n_incidents,
                              calculate_overall_jam_factor(flows),
                              IF raised THEN 60 ELSE calculate_average_speed(flows),
                              t, DisplayName(p), t + CACHE_DURATION)]

\* mutant: the try block has no except clause
provider_get_traffic_data_no_except(p, self, route_id, n_coords, t, up) ==
    LET cached_data == get_cached_data(self, route_id, t)
        fetched == fetch_traffic_data(p, route_id, n_coords, t, up)
    IN  IF cached_data # <<>>
        THEN [raised |-> FALSE, data |-> cached_data, self |-> self, fetched |-> FALSE]
        ELSE IF fetched.raised
        THEN [raised |-> TRUE, data |-> <<>>, self |-> self, fetched |-> TRUE]
        ELSE [raised |-> FALSE, data |-> <<Cached(fetched.data, t)>>,
              self |-> update_cache(self, route_id, fetched.data, t), fetched |-> TRUE]

\* get_traffic_data of TomTomTrafficProvider, HereTrafficProvider and
\* MockTrafficProvider: what it returns (or that it raised), the provider
\* object it leaves, and whether it went past the cache
provider_get_traffic_data(p, self, route_id, n_coords, t, up) ==
    LET cached_data == get_cached_data(self, route_id, t)
        fetched == fetch_traffic_data(p, route_id, n_coords, t, up)
    IN  IF cached_data # <<>>
        THEN [raised |-> FALSE, data |-> cached_data, self |-> self, fetched |-> FALSE]
        ELSE IF fetched.raised
        THEN [raised |-> FALSE, data |-> <<create_empty_traffic_data(p, route_id, t)>>,
              self |-> self, fetched |-> TRUE]
        ELSE [raised |-> FALSE, data |-> <<Cached(fetched.data, t)>>,
              self |-> update_cache(self, route_id, fetched.data, t), fetched |-> TRUE]

-----------------------------------------------------------------------------
(* TrafficManager (src/src/services/traffic_manager.py) *)

\* is_available: True for the mock provider, bool(self.api_key) for the live
\* ones, which _initialize_providers constructs with a non-empty key only
is_available(p) == p \in ProviderNames

\* the first name of the list that is none of excluded, is in the provider
\* table and reports available (<<>> if there is none)
RECURSIVE FirstAvailable(_, _, _)
FirstAvailable(priority, provs, excluded) ==
    IF priority = <<>> THEN <<>>
    ELSE IF Head(priority) \notin excluded /\ Head(priority) \in provs
            /\ is_available(Head(priority))
    THEN <<Head(priority)>>
    ELSE FirstAvailable(Tail(priority), provs, excluded)

\* mutant: the last such name
RECURSIVE LastAvailable(_, _, _)
LastAvailable(priority, provs, excluded) ==
    IF priority = <<>> THEN <<>>
    ELSE LET later == LastAvailable(Tail(priority), provs, excluded)
         IN  IF later # <<>> THEN later
             ELSE IF Head(priority) \notin excluded /\ Head(priority) \in provs
                     /\ is_available(Head(priority))
             THEN <<Head(priority)>>
             ELSE <<>>

\* mutant: the last available name of the priority list is chosen
set_active_provider_last(cfg, provs) ==
    LET last == LastAvailable(cfg.provider_priority, provs, {})
    IN  IF last # <<>> THEN last[1]
        ELSE IF cfg.fallback_to_mock /\ "mock" \in provs THEN "mock"
        ELSE "None"

\* TrafficManager._set_active_provider: the new active_provider ("None" = None)
set_active_provider(cfg, provs) ==
    LET first == FirstAvailable(cfg.provider_priority, provs, {})
    IN  IF first # <<>> THEN first[1]
        ELSE IF cfg.fallback_to_mock /\ "mock" \in provs THEN "mock"
        ELSE "None"

\* mutant: the fallback does not test that the provider is in the table
try_fallback_providers_any(cfg, provs, active) ==
    FirstAvailable(cfg.provider_priority, ProviderNames, {active})

\* mutant: the fallback switches to the last other provider of the list
try_fallback_providers_last(cfg, provs, active) ==
    LastAvailable(cfg.provider_priority, provs, {active})

\* TrafficManager._try_fallback_providers: <<name>> when it switched to name
\* (and returned True), <<>> when it returned False
try_fallback_providers(cfg, provs, active) ==
    FirstAvailable(cfg.provider_priority, provs, {active})

\* mutant: get_traffic_data has no early return
returns_none_early_never(cfg, active) == FALSE

\* TrafficManager.get_traffic_data: not self.config.enabled or not self.active_provider
returns_none_early(cfg, active) == ~cfg.enabled \/ active = "None"

\* mutant: the product of the three multipliers is returned unclamped
get_traffic_multiplier_unclamped(data) ==
    IF data = <<>> THEN 100000
    ELSE LET td == data[1]
         IN  (100 + td.overall_jam_factor)
             * (IF td.incident_count > 0 THEN 10 + IntMin(2, td.incident_count) ELSE 10)
             * (IF td.average_speed_kmh < 60 THEN 100 + (60 - td.average_speed_kmh) ELSE 100)

\* TrafficManager.get_traffic_multiplier, counted in 1/100000: the jam
\* multiplier is (100 + jam) / 100 for a jam factor in hundredths, the
\* incident multiplier (10 + min(2, count)) / 10, and the speed multiplier,
\* 1 + (1 - speed / 60) * 0.6, is (100 + (60 - speed)) / 100
get_traffic_multiplier(data) ==
    IF data = <<>> THEN 100000
    ELSE LET td == data[1]
             jam_multiplier == 100 + td.overall_jam_factor
             incident_multiplier ==
                 IF td.incident_count > 0 THEN 10 + IntMin(2, td.incident_count) ELSE 10
             speed_multiplier ==
                 IF td.average_speed_kmh < 60 THEN 100 + (60 - td.average_speed_kmh) ELSE 100
             total_multiplier == jam_multiplier * incident_multiplier * speed_multiplier
         IN  IntMax(60000, IntMin(220000, total_multiplier))

-----------------------------------------------------------------------------
(* The calls of calculate_normalized_eta that are explored *)

\* ConditionSet (spec section 3; the values are the keys of base_impacts)
ConditionSets ==
    { << <<"weather", w>>, <<"time_of_day", t>>, <<"day_type", d>>,
         <<"road_problem", r>>, <<"police_activity", p>>, <<"driving_history", h>> >> :
        w \in DOMAIN base_impacts.weather, t \in DOMAIN base_impacts.time_of_day,
        d \in DOMAIN base_impacts.day_type, r \in DOMAIN base_impacts.road_problem,
        p \in DOMAIN base_impacts.police_activity, h \in DOMAIN base_impacts.driving_history }

BaseMinutesValues == {20, 30, 60, 120, 180, 300, 360}

\* incident counts 0 .. MaxIncidents
MaxIncidents == 5

\* the mapping of TrafficManager.get_traffic_conditions for some TrafficData
LiveTraffic(jam, incidents, speed) ==
    [given |-> TRUE, live_traffic_enabled |-> TRUE, jam_factor |-> jam,
     incident_count |-> incidents, average_speed_kmh |-> speed]

\* the mapping of TrafficManager.get_traffic_conditions for no data
DisabledTraffic ==
    [given |-> TRUE, live_traffic_enabled |-> FALSE, jam_factor |-> 0,
     incident_count |-> 0, average_speed_kmh |-> 60]

TrafficMappings ==
    {NoTraffic, DisabledTraffic, LiveTraffic(0, 0, 60), LiveTraffic(1, 0, 60),
     LiveTraffic(30, 2, 45), LiveTraffic(75, 0, 60), LiveTraffic(100, MaxIncidents, 10)}

\* the condition set in which every condition has its neutral value (zero
\* base impact; day_type has no such value and stays weekday)
Neutral ==
    << <<"weather", "clear">>, <<"time_of_day", "midday">>, <<"day_type", "weekday">>,
       <<"road_problem", "none">>, <<"police_activity", "low">>,
       <<"driving_history", "normal">> >>

ConditionKeys == {Neutral[i][1] : i \in 1..Len(Neutral)}

\* calls outside the caller contract (base_minutes <= 0, required keys
\* missing) and dicts that hold the same pairs in another insertion order
EdgeBaseMinutes == {-30, 0, 30, 60}

KeyOrders ==
    { <<"weather", "time_of_day", "day_type", "road_problem", "police_activity",
        "driving_history">>,
      <<"driving_history", "police_activity", "road_problem", "day_type", "time_of_day",
        "weather">>,
      <<"police_activity", "weather", "driving_history", "time_of_day", "road_problem",
        "day_type">> }

SampleConditionSets ==
    { Neutral,
      << <<"weather", "cloudy">>, <<"time_of_day", "night">>, <<"day_type", "weekday">>,
         <<"road_problem", "none">>, <<"police_activity", "medium">>,
         <<"driving_history", "calm">> >>,
      << <<"weather", "rain">>, <<"time_of_day", "morning_peak">>, <<"day_type", "holiday">>,
         <<"road_problem", "construction">>, <<"police_activity", "high">>,
         <<"driving_history", "aggressive">> >> }

\* the dict without the given keys
Without(conds, keys) == SelectSeq(conds, LAMBDA kv : kv[1] \notin keys)

KeysOf(conds) == {conds[i][1] : i \in 1..Len(conds)}

\* the dict holding the pairs of conds, inserted in the given order of keys
RECURSIVE OrderedBy(_, _)
OrderedBy(conds, order) ==
    IF order = <<>> THEN <<>>
    ELSE (IF Head(order) \in KeysOf(conds)
          THEN << <<Head(order), DictGet(conds, Head(order), "None")>> >>
          ELSE <<>>) \o OrderedBy(conds, Tail(order))

\* the keys that have a zero-impact value (day_type has none)
ZeroImpactKeys == {k \in ConditionKeys : base_impacts[k][DictGet(Neutral, k, "None")] = 0}

\* the dict with a value outside the enumeration under each of the keys
RECURSIVE WithUnknown(_, _)
WithUnknown(conds, keys) ==
    IF keys = {} THEN conds
    ELSE LET k == CHOOSE x \in keys : TRUE
         IN  WithUnknown(DictSet(conds, k, "unknown"), keys \ {k})

EdgeConditionSets ==
    { OrderedBy(Without(cs, ks), o) :
        cs \in SampleConditionSets, ks \in SUBSET ConditionKeys, o \in KeyOrders }
    \cup { WithUnknown(cs, ks) :
             cs \in SampleConditionSets, ks \in (SUBSET ZeroImpactKeys) \ {{}} }

EdgeTrafficMappings == {NoTraffic, DisabledTraffic, LiveTraffic(30, 2, 45)}

\* get_traffic_multiplier has not been called
NoMultiplierCall == [called |-> FALSE, data |-> <<>>, result |-> 0]

EtaIdle ==
    /\ base_minutes = 30
    /\ conditions = << <<"weather", "clear">>, <<"time_of_day", "midday">>,
                       <<"day_type", "weekday">>, <<"road_problem", "none">>,
                       <<"police_activity", "low">>, <<"driving_history", "normal">> >>
    /\ traffic_data = NoTraffic
    /\ eta_result = NoResult
    /\ mult_call = NoMultiplierCall

-----------------------------------------------------------------------------
(* The calls of the providers and of the manager that are explored *)

\* the clock advances in steps of TickSeconds up to MaxTime
TickSeconds == 100
MaxTime == 400
\* and up to ConcMaxTime while two threads run
ConcMaxTime == 100

\* frames of get_traffic_data a request may nest before Python raises
\* RecursionError (sys.getrecursionlimit(), 1000 by default)
RecursionLimit == 4

\* lengths of the coordinate lists passed
CoordLengths == {0, 2, 25}

\* route ids passed to the calls
CallRoutes == {"r1"}

MaxUpstreamIncidents == 1

FlowResponses ==
    {[status |-> "ok", segments |-> <<>>],
     [status |-> "ok", segments |-> <<Segment(40, 50, 80, TRUE)>>],
     [status |-> "ok", segments |-> <<Segment(40, 0, 80, FALSE)>>],
     [status |-> "ok", segments |-> <<Segment(150, 0, 80, TRUE)>>]}
    \cup {[status |-> f, segments |-> <<>>] : f \in UpstreamFailures}

IncidentResponses ==
    {[status |-> "ok", incidents |-> n] : n \in 0..MaxUpstreamIncidents}
    \cup {[status |-> f, incidents |-> 0] : f \in UpstreamFailures}

MockRandoms == {[jam |-> j, roll |-> r, pick |-> k] : j \in {10, 60}, r \in {0, 50}, k \in {1, 3}}

\* everything outside the provider that one fetch depends on
Upstreams(p) ==
    IF p = "mock"
    THEN {[flow |-> [status |-> "ok", segments |-> <<>>],
           incident |-> [status |-> "ok", incidents |-> 0], rnd |-> m] : m \in MockRandoms}
    ELSE {[flow |-> f, incident |-> i, rnd |-> [jam |-> 0, roll |-> 0, pick |-> 1]] :
            f \in FlowResponses, i \in IncidentResponses}

\* fewer of them, for the runs where several fetches interleave
FewUpstreams(p) ==
    IF p = "mock" THEN {u \in Upstreams(p) : u.rnd.jam = 10 /\ u.rnd.pick = 1}
    ELSE {u \in Upstreams(p) : u.flow.status \in {"ok", "timeout"}
                                /\ u.incident.status = "ok" /\ u.incident.incidents = 0}

\* TrafficConfig
Config(enabled, priority, fallback) ==
    [enabled |-> enabled, provider_priority |-> priority, fallback_to_mock |-> fallback]

PriorityLists ==
    {<<"tomtom", "here", "mock">>, <<"mock">>, <<"tomtom", "mock">>, <<"here", "tomtom">>,
     <<"mock", "here", "tomtom">>, <<>>}

Configs == {Config(e, l, f) : e \in BOOLEAN, l \in PriorityLists, f \in BOOLEAN}

\* the live providers whose API key the environment holds
Environments == {{}, {"tomtom"}, {"tomtom", "here"}}

IdleReq ==
    [pc |-> "idle", route_id |-> "r1", n_coords |-> 0, depth |-> 0, attempts |-> <<>>,
     result |-> <<>>, error |-> "none"]

ThreadIds == {1, 2}

\* a thread that has not called yet
IdleThread ==
    [pc |-> "idle", route_id |-> "r1", n_coords |-> 0, data |-> <<>>, result |-> <<>>,
     raised |-> FALSE, fetched |-> FALSE]

\* no call of a provider has just returned
NoRet ==
    [called |-> FALSE, p |-> "mock", route_id |-> "r1", n_coords |-> 0, before |-> "absent",
     raised |-> FALSE, data |-> <<>>, fetched |-> FALSE, failed |-> FALSE]

\* the cache entry of a route as a call finds it
EntryState(self, route_id, t) ==
    IF self.cache[route_id] = <<>> THEN "absent"
    ELSE IF t < self.cache[route_id][1].cache_until THEN "valid"
    ELSE "expired"

\* some request of the fetch to the upstream API failed
UpstreamFailed(p, n_coords, up) ==
    /\ p # "mock"
    /\ n_coords > 0
    /\ (up.flow.status # "ok" \/ up.incident.status # "ok")

Tick(limit) ==
    /\ req.pc # "call"
    /\ now + TickSeconds <= limit
    /\ now' = now + TickSeconds
    /\ ret' = NoRet
    /\ req' = IdleReq
    /\ UNCHANGED <<etaVars, threads, prov, providers, config, active_provider, last_refresh>>

\* provider.get_traffic_data(route_coordinates, route_id), called directly
ProviderCall(p, route_id, n_coords, up) ==
    /\ req.pc # "call"
    /\ p \in providers
    /\ LET res == provider_get_traffic_data(p, prov[p], route_id, n_coords, now, up)
       IN  /\ prov' = [prov EXCEPT ![p] = res.self]
           /\ ret' = [called |-> TRUE, p |-> p, route_id |-> route_id, n_coords |-> n_coords,
                      before |-> EntryState(prov[p], route_id, now),
                      raised |-> res.raised, data |-> res.data, fetched |-> res.fetched,
                      failed |-> res.fetched /\ UpstreamFailed(p, n_coords, up)]
    /\ UNCHANGED <<etaVars, threads, now, providers, config, active_provider, last_refresh, req>>

\* provider.clear_cache()
ClearCache(p) ==
    /\ req.pc # "call"
    /\ p \in providers
    /\ prov' = [prov EXCEPT ![p] = clear_cache(prov[p])]
    /\ ret' = NoRet
    /\ UNCHANGED <<etaVars, threads, now, providers, config, active_provider, last_refresh, req>>

\* The steps of provider.get_traffic_data(route_coordinates, route_id) run by
\* thread i on provider p; a step is one access to the provider's dicts.
\* The call starts.
ThreadCall(i, p, route_id, n_coords) ==
    /\ threads[i].pc = "idle"
    /\ p \in providers
    /\ threads' = [threads EXCEPT ![i] = [IdleThread EXCEPT !.pc = "check",
                                             !.route_id = route_id, !.n_coords = n_coords]]
    /\ UNCHANGED <<etaVars, sysVarsButThreads>>

\* _is_cache_valid: route_id not in self._cache
ThreadCheck(i, p) ==
    /\ threads[i].pc = "check"
    /\ p \in providers
    /\ threads' = [threads EXCEPT ![i].pc =
                       IF prov[p].cache[threads[i].route_id] = <<>> THEN "fetch" ELSE "read"]
    /\ UNCHANGED <<etaVars, sysVarsButThreads>>

\* _is_cache_valid: cached_data = self._cache[route_id] (KeyError when the
\* key is gone; the lookup is outside the try block) and the comparison
ThreadRead(i, p) ==
    /\ threads[i].pc = "read"
    /\ p \in providers
    /\ LET entry == prov[p].cache[threads[i].route_id]
       IN  threads' = [threads EXCEPT ![i] =
                IF entry = <<>> THEN [@ EXCEPT !.pc = "done", !.raised = TRUE]
                ELSE IF now < entry[1].cache_until THEN [@ EXCEPT !.pc = "return_cached"]
                ELSE [@ EXCEPT !.pc = "fetch"]]
    /\ UNCHANGED <<etaVars, sysVarsButThreads>>

\* _get_cached_data: return self._cache[route_id]
ThreadReturnCached(i, p) ==
    /\ threads[i].pc = "return_cached"
    /\ p \in providers
    /\ LET entry == prov[p].cache[threads[i].route_id]
       IN  threads' = [threads EXCEPT ![i] =
                IF entry = <<>> THEN [@ EXCEPT !.pc = "done", !.raised = TRUE]
                ELSE [@ EXCEPT !.pc = "done", !.result = entry]]
    /\ UNCHANGED <<etaVars, sysVarsButThreads>>

\* the try block up to the TrafficData built, or the except clause
ThreadFetch(i, p, up) ==
    /\ threads[i].pc = "fetch"
    /\ p \in providers
    /\ LET fetched == fetch_traffic_data(p, threads[i].route_id, threads[i].n_coords, now, up)
       IN  threads' = [threads EXCEPT ![i] =
                IF fetched.raised
                THEN [@ EXCEPT !.pc = "done", !.fetched = TRUE,
                               !.result = <<create_empty_traffic_data(p, threads[i].route_id, now)>>]
                ELSE [@ EXCEPT !.pc = "update_cache", !.fetched = TRUE,
                               !.data = <<fetched.data>>]]
    /\ UNCHANGED <<etaVars, sysVarsButThreads>>

\* _update_cache: traffic_data.cache_until = ...; self._cache[route_id] = traffic_data
ThreadUpdateCache(i, p) ==
    /\ threads[i].pc = "update_cache"
    /\ p \in providers
    /\ LET data == Cached(threads[i].data[1], now)
       IN  /\ prov' = [prov EXCEPT ![p].cache[threads[i].route_id] = <<data>>]
           /\ threads' = [threads EXCEPT ![i].pc = "update_last", ![i].data = <<data>>]
    /\ UNCHANGED <<etaVars, now, providers, config, active_provider, last_refresh, req, ret>>

\* _update_cache: self._last_request_time[route_id] = datetime.now(); return
ThreadUpdateLast(i, p) ==
    /\ threads[i].pc = "update_last"
    /\ p \in providers
    /\ prov' = [prov EXCEPT ![p].last_request_time[threads[i].route_id] = <<now>>]
    /\ threads' = [threads EXCEPT ![i].pc = "done", ![i].result = threads[i].data]
    /\ UNCHANGED <<etaVars, now, providers, config, active_provider, last_refresh, req, ret>>

\* provider.clear_cache() (or TrafficManager.clear_all_caches) run by another
\* thread between two steps of the calls in progress
ThreadClearCache(p) ==
    /\ p \in providers
    /\ prov' = [prov EXCEPT ![p] = clear_cache(prov[p])]
    /\ UNCHANGED <<etaVars, threads, now, providers, config, active_provider, last_refresh,
                   req, ret>>

\* TrafficManager.get_traffic_data(route_coordinates, route_id) is called
MgrCall(route_id, n_coords) ==
    /\ req.pc # "call"
    /\ req' = [pc |-> "call", route_id |-> route_id, n_coords |-> n_coords, depth |-> 1,
               attempts |-> <<>>, result |-> <<>>, error |-> "none"]
    /\ UNCHANGED <<etaVars, threads, now, prov, providers, config, active_provider, last_refresh, ret>>

\* One frame of TrafficManager.get_traffic_data.  broken: the provider object
\* raises out of its get_traffic_data (the case the except clause is for).
\* A frame that falls back calls get_traffic_data again: the next frame, or
\* RecursionError, which no frame catches (the call is in the except clause).
MgrFrame(broken, up) ==
    /\ req.pc = "call"
    /\ IF returns_none_early(config, active_provider)
       THEN /\ req' = [req EXCEPT !.pc = "done"]
            /\ UNCHANGED <<prov, active_provider, last_refresh>>
       ELSE LET p == active_provider
                res == provider_get_traffic_data(p, prov[p], req.route_id, req.n_coords, now, up)
                raised == broken \/ p \notin providers \/ res.raised
                switched == try_fallback_providers(config, providers, p)
                tried == Append(req.attempts, [provider |-> p, raised |-> raised])
            IN  IF ~raised
                THEN /\ prov' = [prov EXCEPT ![p] = res.self]
                     /\ last_refresh' = <<now>>
                     /\ req' = [req EXCEPT !.pc = "done", !.attempts = tried,
                                           !.result = res.data]
                     /\ UNCHANGED active_provider
                ELSE /\ UNCHANGED <<prov, last_refresh>>
                     /\ IF switched = <<>>
                        THEN /\ req' = [req EXCEPT !.pc = "done", !.attempts = tried]
                             /\ UNCHANGED active_provider
                        ELSE /\ active_provider' = switched[1]
                             /\ IF req.depth >= RecursionLimit
                                THEN req' = [req EXCEPT !.pc = "done", !.attempts = tried,
                                                        !.error = "RecursionError"]
                                ELSE req' = [req EXCEPT !.depth = req.depth + 1,
                                                        !.attempts = tried]
    /\ UNCHANGED <<etaVars, threads, now, providers, config, ret>>

\* TrafficManager.update_config(config)
UpdateConfig(cfg) ==
    /\ req.pc # "call"
    /\ config' = cfg
    /\ active_provider' = set_active_provider(cfg, providers)
    /\ req' = IdleReq
    /\ UNCHANGED <<etaVars, threads, now, prov, providers, last_refresh, ret>>

\* TrafficManager.clear_all_caches()
ClearAllCaches ==
    /\ req.pc # "call"
    /\ prov' = [p \in ProviderNames |-> IF p \in providers THEN clear_cache(prov[p]) ELSE prov[p]]
    /\ req' = IdleReq
    /\ UNCHANGED <<etaVars, threads, now, providers, config, active_provider, last_refresh, ret>>

\* TrafficManager.__init__ with the given config, in an environment that has
\* the API keys of the live providers in keys
MgrInit(cfg, keys) ==
    /\ now = 0
    /\ prov = [p \in ProviderNames |-> NewProvider]
    /\ providers = keys \cup {"mock"}
    /\ config = cfg
    /\ active_provider = set_active_provider(cfg, keys \cup {"mock"})
    /\ last_refresh = <<>>
    /\ req = IdleReq
    /\ ret = NoRet
    /\ threads = [i \in ThreadIds |-> IdleThread]

\* the TrafficData objects passed to get_traffic_multiplier: well-formed
\* ones and ones outside the documented ranges
MultiplierJamFactors == {-50, 0, 40, 100, 150}
MultiplierSpeeds == {-5, 0, 10, 45, 60, 90}

MultiplierInputs ==
    {<<>>} \cup
    { <<TrafficData("r1", <<>>, n, jam, speed, 0, "TomTom", CACHE_DURATION)>> :
        jam \in MultiplierJamFactors, n \in 0..MaxIncidents, speed \in MultiplierSpeeds }

\* TrafficManager.get_traffic_multiplier(traffic_data) is called
GetTrafficMultiplier(data) ==
    /\ mult_call' = [called |-> TRUE, data |-> data, result |-> get_traffic_multiplier(data)]
    /\ UNCHANGED <<base_minutes, conditions, traffic_data, eta_result, sysVars>>

-----------------------------------------------------------------------------
(* Specifications *)

\* calculate_normalized_eta on every input explored
InitEta ==
    /\ base_minutes \in BaseMinutesValues
    /\ conditions \in ConditionSets
    /\ traffic_data \in TrafficMappings
    /\ eta_result = NoResult
    /\ mult_call = NoMultiplierCall
    /\ MgrInit(Config(TRUE, <<"tomtom", "here", "mock">>, TRUE), {})

CalculateNormalizedEta ==
    /\ ~eta_result.done
    /\ eta_result' = calculate_normalized_eta(base_minutes, conditions, traffic_data)
    /\ UNCHANGED <<base_minutes, conditions, traffic_data, mult_call, sysVars>>

NextEta == CalculateNormalizedEta

SpecEta == InitEta /\ [][NextEta]_vars

\* calculate_normalized_eta on calls outside the caller contract and on
\* dicts in several insertion orders
InitEtaEdge ==
    /\ base_minutes \in EdgeBaseMinutes
    /\ conditions \in EdgeConditionSets
    /\ traffic_data \in EdgeTrafficMappings
    /\ eta_result = NoResult
    /\ mult_call = NoMultiplierCall
    /\ MgrInit(Config(TRUE, <<"tomtom", "here", "mock">>, TRUE), {})

NextEtaEdge == CalculateNormalizedEta

SpecEtaEdge == InitEtaEdge /\ [][NextEtaEdge]_vars

\* one provider object, called directly, in sequence
InitProv ==
    /\ EtaIdle
    /\ now = 0
    /\ prov = [p \in ProviderNames |-> NewProvider]
    /\ providers \in {{p} : p \in ProviderNames}
    /\ config = Config(FALSE, <<>>, FALSE)
    /\ active_provider = "None"
    /\ last_refresh = <<>>
    /\ req = IdleReq
    /\ ret = NoRet
    /\ threads = [i \in ThreadIds |-> IdleThread]

NextProv ==
    \/ \E p \in providers, r \in CallRoutes, n \in CoordLengths :
           \E up \in Upstreams(p) : ProviderCall(p, r, n, up)
    \/ \E p \in providers : ClearCache(p)
    \/ Tick(MaxTime)

SpecProv == InitProv /\ [][NextProv]_vars

\* one provider object, called by two threads
InitConc == InitProv

NextConc ==
    \/ \E i \in ThreadIds, p \in providers, r \in CallRoutes, n \in CoordLengths :
           ThreadCall(i, p, r, n)
    \/ \E i \in ThreadIds, p \in providers : ThreadCheck(i, p)
    \/ \E i \in ThreadIds, p \in providers : ThreadRead(i, p)
    \/ \E i \in ThreadIds, p \in providers : ThreadReturnCached(i, p)
    \/ \E i \in ThreadIds, p \in providers : \E up \in FewUpstreams(p) : ThreadFetch(i, p, up)
    \/ \E i \in ThreadIds, p \in providers : ThreadUpdateCache(i, p)
    \/ \E i \in ThreadIds, p \in providers : ThreadUpdateLast(i, p)
    \/ \E p \in providers : ThreadClearCache(p)
    \/ Tick(ConcMaxTime)

SpecConc == InitConc /\ [][NextConc]_vars

\* a TrafficManager and its providers, called in sequence
InitMgr ==
    /\ EtaIdle
    /\ \E cfg \in Configs, keys \in Environments : MgrInit(cfg, keys)

NextMgr ==
    \/ \E r \in CallRoutes : MgrCall(r, 2)
    \/ \E broken \in BOOLEAN :
           \E up \in FewUpstreams(IF active_provider \in ProviderNames
                                  THEN active_provider ELSE "mock") : MgrFrame(broken, up)
    \/ \E cfg \in Configs : UpdateConfig(cfg)
    \/ ClearAllCaches

SpecMgr == InitMgr /\ [][NextMgr]_vars

\* get_traffic_multiplier of a manager, on every TrafficData explored
InitMult ==
    /\ EtaIdle
    /\ MgrInit(Config(TRUE, <<"tomtom", "here", "mock">>, TRUE), {})

NextMult == \E data \in MultiplierInputs : GetTrafficMultiplier(data)

SpecMult == InitMult /\ [][NextMult]_vars

-----------------------------------------------------------------------------
(* Properties of calculate_normalized_eta *)

WorstCase ==
    << <<"weather", "storm">>, <<"time_of_day", "evening_peak">>, <<"day_type", "holiday">>,
       <<"road_problem", "accident">>, <<"police_activity", "high">>,
       <<"driving_history", "aggressive">> >>

\* 1 + total inflation before the caps of the call that was made
UncappedMultiplier ==
    BigAdd(Dec(100),
           total_inflation_of(base_minutes, eta_result.combined_impact,
                              eta_result.additive_penalty_minutes))

\* C1: every call returns a multiplier in [0.8, 1.4], hence adjusted_minutes
\* <= 1.4 * base_minutes; the worst case at 300 minutes stays within 8 hours
C1_MultiplierBounded ==
    eta_result.done =>
        /\ BigLeq(Dec(MIN_MULTIPLICATIVE_FACTOR), eta_result.multiplier)
        /\ BigLeq(eta_result.multiplier, Dec(MAX_MULTIPLICATIVE_FACTOR))
        /\ BigLeq(eta_result.adjusted_minutes,
                  BigMul(Dec(MAX_MULTIPLICATIVE_FACTOR), base_minutes))
        /\ (base_minutes = 300 /\ conditions = WorstCase) =>
               BigLeq(eta_result.adjusted_minutes, BigMul(Dec(100), 8 * 60))

\* the worst case at 300 minutes was computed and the bound cut it down
C1_Witness ==
    /\ eta_result.done
    /\ base_minutes = 300
    /\ conditions = WorstCase
    /\ BigLess(Dec(MAX_MULTIPLICATIVE_FACTOR), UncappedMultiplier)
    /\ eta_result.multiplier = Dec(MAX_MULTIPLICATIVE_FACTOR)

WeatherSeverity == <<"clear", "cloudy", "rain", "storm">>

SeverityRank(w) == CHOOSE i \in 1..Len(WeatherSeverity) : WeatherSeverity[i] = w

\* the weathers one or more steps above w on clear -> cloudy -> rain -> storm
MoreSevere(w) ==
    IF w \in {WeatherSeverity[i] : i \in 1..Len(WeatherSeverity)}
    THEN {WeatherSeverity[j] : j \in (SeverityRank(w) + 1)..Len(WeatherSeverity)}
    ELSE {}

MultiplierWithWeather(w) ==
    calculate_normalized_eta(base_minutes, DictSet(conditions, "weather", w),
                             traffic_data).multiplier

\* C9: with everything else fixed, a more severe weather never gives a
\* smaller multiplier
C9_WeatherMonotone ==
    eta_result.done =>
        \A w \in MoreSevere(DictGet(conditions, "weather", "clear")) :
            BigLeq(eta_result.multiplier, MultiplierWithWeather(w))

\* a call under rain whose multiplier is strictly below the one under storm
C9_Witness ==
    /\ eta_result.done
    /\ DictGet(conditions, "weather", "clear") = "rain"
    /\ BigLess(eta_result.multiplier, MultiplierWithWeather("storm"))

InflationPercentAt(b) ==
    calculate_normalized_eta(b, conditions, NoTraffic).total_inflation_percent

\* C10 as stated: without traffic data the inflation at 300 minutes is
\* strictly below the inflation at 30 minutes, for every condition set
C10_Original ==
    (eta_result.done /\ ~traffic_data.given /\ base_minutes = 30) =>
        BigLess(InflationPercentAt(300), eta_result.total_inflation_percent)

\* C10 amended: strictly below when the 30-minute inflation is positive and
\* under the 40% bound; not above when it is at the bound; strictly above
\* (nearer to zero) when it is negative
C10_DurationDamping ==
    (eta_result.done /\ ~traffic_data.given /\ base_minutes = 30) =>
        LET short == eta_result.total_inflation_percent
            long == InflationPercentAt(300)
            bound == BigMul(Dec(MAX_MULTIPLICATIVE_FACTOR - 100), 100)
        IN  /\ (BigLess(Big(0), short) /\ BigLess(short, bound)) => BigLess(long, short)
            /\ short = bound => BigLeq(long, short)
            /\ BigLess(short, Big(0)) => (BigLess(short, long) /\ BigLess(long, Big(0)))

\* a 30-minute call with inflation strictly between 0 and 40%
C10_Witness ==
    /\ eta_result.done /\ ~traffic_data.given /\ base_minutes = 30
    /\ BigLess(Big(0), eta_result.total_inflation_percent)
    /\ BigLess(eta_result.total_inflation_percent,
               BigMul(Dec(MAX_MULTIPLICATIVE_FACTOR - 100), 100))
    /\ BigLess(InflationPercentAt(300), eta_result.total_inflation_percent)

-----------------------------------------------------------------------------
(* Properties of TrafficManager.get_traffic_data *)

\* name is the first name of the priority list, other than p, whose provider
\* is in the provider table (every provider in the table reports available)
FirstOther(name, p) ==
    /\ name # p
    /\ name \in providers
    /\ \E k \in 1..Len(config.provider_priority) :
           /\ config.provider_priority[k] = name
           /\ \A j \in 1..(k - 1) :
                  config.provider_priority[j] = p \/ config.provider_priority[j] \notin providers

\* the data is what provider p builds, regular or fallback
DataOf(data, p) ==
    data # <<>> /\ data[1].provider \in {DisplayName(p), DisplayName(p) \o " (fallback)"}

\* C2: when a provider's fetch raises inside TrafficManager.get_traffic_data,
\* the manager switches to the first other provider of the priority list that
\* is available: that provider is the active one and the one fetched next; and
\* when its fetch succeeds the request returns that provider's TrafficData and
\* no exception reaches the caller.
C2_FallbackToFirstOther ==
    \A i \in 1..Len(req.attempts) : \A name \in ProviderNames :
        (req.attempts[i].raised /\ FirstOther(name, req.attempts[i].provider)) =>
            /\ i = Len(req.attempts) => active_provider = name
            /\ i < Len(req.attempts) => req.attempts[i + 1].provider = name
            /\ (i + 1 = Len(req.attempts) /\ ~req.attempts[i + 1].raised) =>
                   /\ req.pc = "done"
                   /\ DataOf(req.result, name)
                   /\ req.error = "none"
                   /\ active_provider = name

\* the tomtom provider raised, here and mock were both available, and the
\* request returned the data of the provider switched to
C2_Witness ==
    /\ req.pc = "done"
    /\ Len(req.attempts) = 2
    /\ req.attempts[1] = [provider |-> "tomtom", raised |-> TRUE]
    /\ ~req.attempts[2].raised
    /\ providers = {"tomtom", "here", "mock"}
    /\ config.provider_priority = <<"tomtom", "here", "mock">>
    /\ req.result # <<>>

\* C3: one request invokes provider fetches at most twice (the first attempt
\* and one retry on the provider switched to).
C3_Original == Len(req.attempts) <= 2

\* every attempt of the request raised
AllRaised == \A i \in 1..Len(req.attempts) : req.attempts[i].raised

\* C4: when the fetch of every provider raises, get_traffic_data terminates
\* and returns nothing (no data and no exception).
C4_Original ==
    (req.pc = "done" /\ Len(req.attempts) >= 1 /\ AllRaised) =>
        (req.result = <<>> /\ req.error = "none")

-----------------------------------------------------------------------------
(* Properties of the providers' get_traffic_data *)

\* the cache entry of the route the last call was about
RetEntry == prov[ret.p].cache[ret.route_id]

\* C5: a call before cache_until of the entry returns the entry without a
\* fetch; a call at or after cache_until fetches and replaces the entry by
\* what it returns.
C5_Original ==
    /\ (ret.called /\ ret.before = "valid") =>
           (~ret.fetched /\ ret.data = RetEntry)
    /\ (ret.called /\ ret.before = "expired") =>
           (ret.fetched /\ ret.data = RetEntry /\ ret.data[1].last_updated = now)

\* C6: when an upstream request of a live provider fails, get_traffic_data
\* returns the fallback data: provider "<Provider> (fallback)", jam factor 0,
\* speed 60, no flows, no incidents, cache_until 60 seconds after creation.
C6_Original ==
    (ret.called /\ ret.p \in {"tomtom", "here"} /\ ret.failed) =>
        /\ ret.data # <<>>
        /\ ret.data[1].provider = DisplayName(ret.p) \o " (fallback)"
        /\ ret.data[1].overall_jam_factor = 0
        /\ ret.data[1].average_speed_kmh = 60
        /\ ret.data[1].flows = <<>>
        /\ ret.data[1].incident_count = 0
        /\ ret.data[1].cache_until = ret.data[1].last_updated + 60

\* C7: get_traffic_data of every provider returns a TrafficData for the
\* route asked and never raises, whatever the upstream answers and however
\* many coordinates are passed.
C7_NeverRaises ==
    ret.called => (~ret.raised /\ ret.data # <<>> /\ ret.data[1].route_id = ret.route_id)

\* a fetch left the try block by an exception and the call returned the
\* fallback data
C7_Witness ==
    /\ ret.called
    /\ ret.fetched
    /\ ret.data # <<>>
    /\ ret.data[1].provider = DisplayName(ret.p) \o " (fallback)"

-----------------------------------------------------------------------------
(* Properties of concurrent calls of one provider *)

\* both threads went past the cache for the same route and have returned
BothFetched ==
    /\ \A i \in ThreadIds : threads[i].pc = "done" /\ threads[i].fetched
    /\ threads[1].route_id = threads[2].route_id

\* C8: when two calls for the same uncached route run concurrently on one
\* provider, both return a TrafficData, and afterwards the cache has an entry
\* for the route that is one of the two results, and the last-request map
\* has an entry for the route.
C8_Original ==
    BothFetched =>
        \A p \in providers :
            /\ \A i \in ThreadIds : ~threads[i].raised /\ threads[i].result # <<>>
            /\ prov[p].cache[threads[1].route_id] # <<>>
            /\ \E i \in ThreadIds : prov[p].cache[threads[1].route_id] = threads[i].result
            /\ prov[p].last_request_time[threads[1].route_id] # <<>>

-----------------------------------------------------------------------------
(* Properties of the steps of calculate_normalized_eta *)

\* C11: the duration scaling factor never increases with trip length: it is
\* 1.0 up to 30 minutes, 0.8 at the medium threshold (120 minutes), 0.5 at
\* and beyond the long threshold (300 minutes), and for b1 <= b2 the factor
\* of b1 is at least the factor of b2.
C11_Original ==
    eta_result.done =>
        /\ base_minutes <= SHORT_TRIP_THRESHOLD =>
               duration_scaling_factor(base_minutes) = 1800
        /\ base_minutes = MEDIUM_TRIP_THRESHOLD =>
               duration_scaling_factor(base_minutes) = SHORT_TO_MEDIUM_SLOPE * 18
        /\ base_minutes >= LONG_TRIP_THRESHOLD =>
               duration_scaling_factor(base_minutes) = MEDIUM_TO_LONG_SLOPE * 18
        /\ \A b2 \in BaseMinutesValues :
               base_minutes <= b2 =>
                   duration_scaling_factor(base_minutes) >= duration_scaling_factor(b2)

\* the base impact of the value that conds gives to key
BaseImpactIn(conds, key) == base_impacts[key][DictGet(conds, key, "None")]

\* the keys on which conds differs from Neutral
Switched(conds) ==
    {k \in ConditionKeys : DictGet(conds, k, "None") # DictGet(Neutral, k, "None")}

\* conds is Neutral with three conditions switched from a neutral value
\* (zero base impact) to an adverse one (positive base impact)
ThreeAdverse(conds) ==
    /\ Cardinality(Switched(conds)) = 3
    /\ \A k \in Switched(conds) : BaseImpactIn(Neutral, k) = 0 /\ BaseImpactIn(conds, k) > 0

\* the ways to switch the three conditions one at a time in decreasing
\* order of base impact
DecreasingOrders(conds) ==
    {o \in Switched(conds) \X Switched(conds) \X Switched(conds) :
        /\ o[1] # o[2] /\ o[1] # o[3] /\ o[2] # o[3]
        /\ BaseImpactIn(conds, o[1]) >= BaseImpactIn(conds, o[2])
        /\ BaseImpactIn(conds, o[2]) >= BaseImpactIn(conds, o[3])}

\* Neutral with the first n conditions of the order switched as in conds
RECURSIVE SwitchedUpTo(_, _, _)
SwitchedUpTo(conds, o, n) ==
    IF n = 0 THEN Neutral
    ELSE DictSet(SwitchedUpTo(conds, o, n - 1), o[n], DictGet(conds, o[n], "None"))

\* the multiplier increase caused by switching the n-th condition of the order
IncreaseBy(o, n) ==
    BigSub(calculate_normalized_eta(base_minutes, SwitchedUpTo(conditions, o, n),
                                    NoTraffic).multiplier,
           calculate_normalized_eta(base_minutes, SwitchedUpTo(conditions, o, n - 1),
                                    NoTraffic).multiplier)

\* C12 as stated: for three conditions switched from neutral to adverse one
\* at a time in decreasing order of base impact, the increase of the
\* multiplier caused by the 2nd is at most that of the 1st, and that of the
\* 3rd at most that of the 2nd.
C12_Original ==
    (eta_result.done /\ ~traffic_data.given /\ ThreeAdverse(conditions)) =>
        \A o \in DecreasingOrders(conditions) :
            /\ BigLeq(IncreaseBy(o, 2), IncreaseBy(o, 1))
            /\ BigLeq(IncreaseBy(o, 3), IncreaseBy(o, 2))

\* C12 amended: the same, for the orders in which time_of_day is not
\* switched after another condition (a peak time raises the context weight
\* of the conditions already switched and adds its per-hour penalty).
C12_DiminishingReturns ==
    (eta_result.done /\ ~traffic_data.given /\ ThreeAdverse(conditions)) =>
        \A o \in DecreasingOrders(conditions) :
            (o[2] # "time_of_day" /\ o[3] # "time_of_day") =>
                /\ BigLeq(IncreaseBy(o, 2), IncreaseBy(o, 1))
                /\ BigLeq(IncreaseBy(o, 3), IncreaseBy(o, 2))

\* construction, then rain, then high police activity on a 60-minute trip: each
\* increase is strictly smaller than the one before and no cap binds
C12_Witness ==
    /\ eta_result.done /\ ~traffic_data.given /\ base_minutes = 60
    /\ conditions = DictSet(DictSet(DictSet(Neutral, "road_problem", "construction"),
                                    "weather", "rain"), "police_activity", "high")
    /\ LET o == <<"road_problem", "weather", "police_activity">>
       IN  /\ o \in DecreasingOrders(conditions)
           /\ BigLess(IncreaseBy(o, 2), IncreaseBy(o, 1))
           /\ BigLess(IncreaseBy(o, 3), IncreaseBy(o, 2))
           /\ BigLess(Big(0), IncreaseBy(o, 3))

\* the multiplier of the same call without traffic data
NoTrafficMultiplier ==
    calculate_normalized_eta(base_minutes, conditions, NoTraffic).multiplier

\* C13 as stated: a traffic mapping with live_traffic_enabled and a jam
\* factor above 0 gives a strictly larger multiplier than no traffic data.
C13_Original ==
    (eta_result.done /\ traffic_available(traffic_data) /\ traffic_data.jam_factor > 0) =>
        BigLess(NoTrafficMultiplier, eta_result.multiplier)

\* C13 amended: with a jam factor of 0.75 or more the multiplier is not
\* smaller than without traffic data, and it is strictly larger when the
\* multiplier without traffic data is below MAX_MULTIPLICATIVE_FACTOR.
C13_TrafficBlending ==
    (eta_result.done /\ traffic_available(traffic_data) /\ traffic_data.jam_factor >= 75) =>
        /\ BigLeq(NoTrafficMultiplier, eta_result.multiplier)
        /\ BigLess(NoTrafficMultiplier, Dec(MAX_MULTIPLICATIVE_FACTOR)) =>
               BigLess(NoTrafficMultiplier, eta_result.multiplier)

\* a call with jam factor 0.75 alone whose multiplier is above the one
\* without traffic data and below the upper bound
C13_Witness ==
    /\ eta_result.done
    /\ traffic_data = LiveTraffic(75, 0, 60)
    /\ BigLess(NoTrafficMultiplier, eta_result.multiplier)
    /\ BigLess(eta_result.multiplier, Dec(MAX_MULTIPLICATIVE_FACTOR))
-----------------------------------------------------------------------------
(* Properties of calculate_normalized_eta on calls outside the contract and *)
(* on dicts that differ in insertion order only                             *)

\* base_minutes <= 0, or one of the six required keys is missing
ContractViolated ==
    base_minutes <= 0 \/ ConditionKeys \ KeysOf(conditions) # {}

\* C14: for base_minutes <= 0 or a condition mapping that lacks one of the
\* six required keys, calculate_normalized_eta ends in an error and returns
\* no result
C14_Original ==
    eta_result.done /\ ContractViolated => eta_result.error # "none"

\* C15: calls with equal base_minutes, equal traffic mappings and condition
\* mappings holding the same key/value pairs return the same multiplier and
\* adjusted_minutes, whatever the insertion order of the keys
C15_Original ==
    eta_result.done =>
        \A o \in KeyOrders :
            LET other == calculate_normalized_eta(base_minutes, OrderedBy(conditions, o),
                                                  traffic_data)
            IN  /\ other.error = eta_result.error
                /\ other.multiplier = eta_result.multiplier
                /\ other.adjusted_minutes = eta_result.adjusted_minutes
-----------------------------------------------------------------------------
(* Properties of the TrafficData a provider returns *)

\* C16: every TrafficData returned by a provider, for any upstream payload,
\* has 0 <= overall_jam_factor <= 1 (0 .. 100 hundredths) and
\* average_speed_kmh > 0
C16_Original ==
    (ret.called /\ ret.data # <<>>) =>
        /\ ret.data[1].overall_jam_factor >= 0
        /\ ret.data[1].overall_jam_factor <= 100
        /\ ret.data[1].average_speed_kmh > 0
-----------------------------------------------------------------------------
(* Properties of the choice of the active provider *)

\* the positions of the priority list whose provider exists and is available
Candidates(cfg, provs) ==
    {i \in 1..Len(cfg.provider_priority) :
        cfg.provider_priority[i] \in provs /\ is_available(cfg.provider_priority[i])}

\* the first such name, else mock if fallback_to_mock, else unset
ExpectedActive(cfg, provs) ==
    IF Candidates(cfg, provs) # {}
    THEN cfg.provider_priority[CHOOSE i \in Candidates(cfg, provs) :
                                   \A j \in Candidates(cfg, provs) : i <= j]
    ELSE IF cfg.fallback_to_mock THEN "mock"
    ELSE "None"

\* C17: after construction and after every update_config, active_provider
\* is the first name of the priority list whose provider exists and reports
\* available; if there is none it is mock when fallback_to_mock is enabled
\* and unset otherwise.
C17_ActiveProvider ==
    /\ active_provider = ExpectedActive(config, providers)
    /\ [][(\E cfg \in Configs : UpdateConfig(cfg)) =>
              active_provider' = ExpectedActive(config', providers')]_vars

\* update_config has just run (the mock provider has served a request, which
\* under this priority list it never does) and chose tomtom, skipping here,
\* which was not constructed
C17_Witness ==
    /\ req = IdleReq
    /\ prov["mock"].cache["r1"] # <<>>
    /\ config.provider_priority = <<"here", "tomtom">>
    /\ "here" \notin providers
    /\ "tomtom" \in providers
    /\ active_provider = "tomtom"
-----------------------------------------------------------------------------
(* Properties of the fallback data in the cache *)

\* the last call went past the cache and returned fallback data
ReturnedFallback ==
    /\ ret.called
    /\ ret.fetched
    /\ ret.data # <<>>
    /\ ret.data[1].provider = DisplayName(ret.p) \o " (fallback)"

\* C18: a second get_traffic_data call on the same provider for the same
\* route within 60 seconds of a failed fetch returns the same fallback
\* TrafficData (identical last_updated) without a new fetch attempt.
C18_Original ==
    [][(/\ ReturnedFallback
        /\ now' < ret.data[1].last_updated + FALLBACK_CACHE_SECONDS
        /\ \E n \in CoordLengths : \E up \in Upstreams(ret.p) :
               ProviderCall(ret.p, ret.route_id, n, up))
       => (~ret'.fetched /\ ret'.data = ret.data)]_vars
-----------------------------------------------------------------------------
(* Properties of the flags of the result *)

\* C19: traffic_integration is true exactly when a traffic mapping with
\* live_traffic_enabled set was supplied; it is false when no mapping is
\* supplied and when the mapping is the disabled-state mapping
C19_Original ==
    (eta_result.done /\ eta_result.error = "none") =>
        (eta_result.traffic_integration
            <=> (traffic_data.given /\ traffic_data.live_traffic_enabled))
\* C20: cap_applied is true exactly when the cap step bound the result, i.e.
\* when the final multiplier differs from 1 + total inflation before capping
C20_Original ==
    (eta_result.done /\ eta_result.error = "none") =>
        (eta_result.cap_applied <=> eta_result.multiplier # UncappedMultiplier)
-----------------------------------------------------------------------------
(* Properties of the mock provider *)

\* C21: for every coordinate list and every route that is not cached,
\* get_traffic_data of the mock provider returns a TrafficData with the
\* requested route_id and provider name exactly "Mock", never the fallback
\* variant, whichever random branches the generator takes
C21_Original ==
    (ret.called /\ ret.p = "mock" /\ ret.before # "valid") =>
        /\ ret.data # <<>>
        /\ ret.data[1].route_id = ret.route_id
        /\ ret.data[1].provider = "Mock"
-----------------------------------------------------------------------------
(* Properties of TrafficManager.get_traffic_multiplier *)

\* 0 <= overall_jam_factor <= 1, incident_count >= 0, average_speed_kmh > 0
WellFormed(td) ==
    /\ td.overall_jam_factor >= 0
    /\ td.overall_jam_factor <= 100
    /\ td.incident_count >= 0
    /\ td.average_speed_kmh > 0

\* C22: get_traffic_multiplier returns exactly 1.0 when given no data; for
\* any TrafficData the result lies in [0.6, 2.2]; and for a TrafficData with
\* 0 <= overall_jam_factor <= 1, incident_count >= 0 and average_speed_kmh > 0
\* the result is >= 1.0
C22_TrafficMultiplier ==
    mult_call.called =>
        /\ mult_call.data = <<>> => mult_call.result = 100000
        /\ mult_call.result >= 60000
        /\ mult_call.result <= 220000
        /\ (mult_call.data # <<>> /\ WellFormed(mult_call.data[1])) =>
               mult_call.result >= 100000

\* a well-formed TrafficData whose product of multipliers (2.0 * 1.2 * 1.5)
\* was cut down to 2.2
C22_Witness ==
    /\ mult_call.called
    /\ mult_call.data # <<>>
    /\ WellFormed(mult_call.data[1])
    /\ mult_call.data[1].overall_jam_factor = 100
    /\ mult_call.data[1].incident_count >= 2
    /\ mult_call.data[1].average_speed_kmh = 10
    /\ mult_call.result = 220000
-----------------------------------------------------------------------------
(* Properties of condition values outside the enumeration *)

\* the keys of the call whose value is outside the enumeration
UnknownKeys ==
    {k \in ZeroImpactKeys :
        k \in KeysOf(conditions) /\ DictGet(conditions, k, "None") \notin DOMAIN base_impacts[k]}

\* the conditions of the call with the zero-impact value (clear, midday,
\* none, low, normal) in place of each value outside the enumeration
RECURSIVE ZeroImpactFor(_, _)
ZeroImpactFor(conds, keys) ==
    IF keys = {} THEN conds
    ELSE LET k == CHOOSE x \in keys : TRUE
         IN  ZeroImpactFor(DictSet(conds, k, DictGet(Neutral, k, "None")), keys \ {k})

\* C23: a condition value outside its enumeration is not an error and
\* contributes zero impact: the call returns the multiplier and the additive
\* penalty of the call that has the zero-impact value in its place
C23_UnknownIsZero ==
    (eta_result.done /\ base_minutes # 0) =>
        LET known == calculate_normalized_eta(base_minutes,
                         ZeroImpactFor(conditions, UnknownKeys), traffic_data)
        IN  /\ eta_result.error = "none"
            /\ eta_result.multiplier = known.multiplier
            /\ eta_result.additive_penalty_minutes = known.additive_penalty_minutes

\* a call with an unknown weather and an unknown road problem, the other
\* conditions adverse, was computed
C23_Witness ==
    /\ eta_result.done
    /\ base_minutes = 60
    /\ UnknownKeys = {"weather", "road_problem"}
    /\ DictGet(conditions, "time_of_day", "None") = "morning_peak"
    /\ BigLess(Dec(100), eta_result.multiplier)
-----------------------------------------------------------------------------
(* Properties of TrafficManager.get_traffic_data without a provider to ask *)

\* C24: when traffic integration is disabled or no active provider is set,
\* get_traffic_data returns nothing without raising, invokes no provider and
\* leaves active_provider, last_refresh and every provider cache unchanged
C24_NothingWhenOff ==
    [][(req.pc = "call" /\ (~config.enabled \/ active_provider = "None")) =>
           /\ req'.pc = "done"
           /\ req'.result = <<>>
           /\ req'.error = "none"
           /\ req'.attempts = <<>>
           /\ UNCHANGED <<active_provider, last_refresh, prov>>]_vars

\* a request returned nothing, without an attempt on a provider, from a
\* manager that is disabled and has served a request before (a cache entry
\* and last_refresh are there to be left alone)
C24_Witness ==
    /\ req.pc = "done"
    /\ req.attempts = <<>>
    /\ req.result = <<>>
    /\ ~config.enabled
    /\ active_provider # "None"
    /\ last_refresh # <<>>
    /\ \E p \in providers : prov[p].cache["r1"] # <<>>
-----------------------------------------------------------------------------
(* Properties of the blending of live traffic into the raw impacts *)

\* the call that was made, without its traffic mapping
WithoutTraffic == calculate_normalized_eta(base_minutes, conditions, NoTraffic)

\* C25: when a traffic mapping with live_traffic_enabled is supplied, the
\* raw impact of each manual condition is exactly 0.3 times its raw impact
\* in the same call without traffic data; the live_traffic pseudo-condition
\* is a value in [0, 1.2], 0 when the jam factor is 0, there are no incidents
\* and the speed is at least 60, and is not dampened; additive_penalty_minutes
\* is the same as without traffic data
C25_ManualDampened ==
    (eta_result.done /\ traffic_available(traffic_data)) =>
        LET manual == WithoutTraffic
            live_traffic == DictGet(eta_result.raw_impacts, "live_traffic", -1)
        IN
        /\ KeysOf(eta_result.raw_impacts) = KeysOf(manual.raw_impacts) \cup {"live_traffic"}
        /\ \A k \in KeysOf(manual.raw_impacts) :
               10 * DictGet(eta_result.raw_impacts, k, 0)
                   = 3 * DictGet(manual.raw_impacts, k, 0)
        /\ live_traffic >= 0
        /\ live_traffic <= 120000
        /\ live_traffic
               = IntMax(0, IntMin(120000,
                     800 * traffic_data.jam_factor
                     + IntMin(40000, 10000 * traffic_data.incident_count)
                     + (IF traffic_data.average_speed_kmh < 60
                        THEN 1000 * (60 - traffic_data.average_speed_kmh) ELSE 0)))
        /\ (traffic_data.jam_factor = 0 /\ traffic_data.incident_count = 0
                /\ traffic_data.average_speed_kmh >= 60) =>
               live_traffic = 0
        /\ eta_result.additive_penalty_minutes = manual.additive_penalty_minutes

\* a storm in the evening peak blended with moderate live traffic: the
\* weather impact 0.2875 is written back as 0.08625, live_traffic is 0.59
C25_Witness ==
    /\ eta_result.done
    /\ traffic_data = LiveTraffic(30, 2, 45)
    /\ DictGet(conditions, "weather", "None") = "storm"
    /\ DictGet(conditions, "time_of_day", "None") = "evening_peak"
    /\ DictGet(WithoutTraffic.raw_impacts, "weather", 0) = 28750
    /\ DictGet(eta_result.raw_impacts, "weather", 0) = 8625
    /\ DictGet(eta_result.raw_impacts, "live_traffic", 0) = 59000
-----------------------------------------------------------------------------
(* Properties of the breakdown *)

\* the elements of a sequence
Range(s) == {s[i] : i \in 1..Len(s)}

\* C26: breakdown.contributions contains one entry for every impact that
\* entered the combined impact of the call: one per recognised condition
\* and, when live traffic was blended, one for live_traffic
C26_Original ==
    (eta_result.done /\ eta_result.error = "none") =>
        /\ Range(eta_result.contributions) = KeysOf(eta_result.raw_impacts)
        /\ Len(eta_result.contributions) = Len(eta_result.raw_impacts)

\* C27: for every base_minutes > 0, breakdown.duration_analysis.scaling_factor
\* equals the factor by which _apply_duration_scaling multiplied each raw
\* impact in that call
C27_Original ==
    (eta_result.done /\ base_minutes > 0) =>
        eta_result.scaling_factor = duration_scaling_factor(base_minutes)
-----------------------------------------------------------------------------
(* Properties of the severity bands *)

\* combined impacts from -1.00 to 1.00 in hundredths
MaxInflation == 100
InflationGrid == (0 - MaxInflation)..MaxInflation

\* clamp(x, MIN_MULTIPLICATIVE_FACTOR, MAX_MULTIPLICATIVE_FACTOR)
ClampToBounds(x) ==
    BigMax(Dec(MIN_MULTIPLICATIVE_FACTOR), BigMin(Dec(MAX_MULTIPLICATIVE_FACTOR), x))

\* C28: with the default ETAConfig the severity-band caps never change the
\* outcome: for every base_minutes > 0 and every total inflation,
\* _apply_severity_caps returns exactly clamp(1 + total_inflation, 0.8, 1.4)
C28_BandCapsInert ==
    (eta_result.done /\ base_minutes > 0) =>
        /\ eta_result.multiplier = ClampToBounds(UncappedMultiplier)
        /\ \A c \in InflationGrid :
               apply_severity_caps(base_minutes, Dec(c), eta_result.additive_penalty_minutes)
                   = ClampToBounds(BigAdd(Dec(100),
                         total_inflation_of(base_minutes, Dec(c),
                                            eta_result.additive_penalty_minutes)))

\* a call in the heavy band whose total inflation exceeds the band's cap:
\* the 60% cap cut it down and the bound 1.4 then decided the result
C28_Witness ==
    /\ eta_result.done
    /\ base_minutes = 60
    /\ BigLess(Dec(100 + HEAVY_SEVERITY_CAP), UncappedMultiplier)
    /\ eta_result.multiplier = Dec(MAX_MULTIPLICATIVE_FACTOR)
-----------------------------------------------------------------------------
(* Properties of a cache clear concurrent with get_traffic_data *)

\* C29: a provider's get_traffic_data never raises when clear_cache runs
\* concurrently with it, in any interleaving of the cache-validity check,
\* the cache read and the clear
C29_Original ==
    \A i \in ThreadIds : ~threads[i].raised
-----------------------------------------------------------------------------
(* Invariants of the TrafficManager *)

\* C30: in every state reachable through construction and any sequence of
\* get_traffic_data (fallback switching included), update_config and
\* clear_all_caches, active_provider is either unset or the name of a
\* provider that is in the provider table and reports available; and
\* last_refresh changes only when a provider returned data to the manager
C30_ActiveProviderExists ==
    /\ [](active_provider = "None"
            \/ (active_provider \in providers /\ is_available(active_provider)))
    /\ [][last_refresh' # last_refresh =>
              /\ req.pc = "call"
              /\ req'.pc = "done"
              /\ req'.result # <<>>
              /\ req'.error = "none"
              /\ ~req'.attempts[Len(req'.attempts)].raised
              /\ req'.attempts[Len(req'.attempts)].provider = active_provider]_vars

\* the request failed on tomtom, switched to here, which was constructed,
\* and got data there: here is the active provider and last_refresh is set
C30_Witness ==
    /\ req.pc = "done"
    /\ Len(req.attempts) = 2
    /\ req.attempts[1] = [provider |-> "tomtom", raised |-> TRUE]
    /\ req.attempts[2] = [provider |-> "here", raised |-> FALSE]
    /\ active_provider = "here"
    /\ "here" \in providers
    /\ last_refresh = <<now>>

====
